---- MODULE Spec2Model ----
(***************************************************************************)
(* Model of the bwt package: suffix-array construction by prefix doubling  *)
(* (sa.go), the Burrows-Wheeler transform built from it, the C- and        *)
(* O-tables and the inversion of the transform by the LF walk.             *)
(*                                                                         *)
(* Go slices are modelled as functions over 0..len-1, so that every index  *)
(* expression of the source keeps its value.  A Go run-time panic (index   *)
(* out of range, negative length passed to make) is modelled by the        *)
(* control state "panic": the call never returns.                          *)
(***************************************************************************)
EXTENDS Integers, Sequences, FiniteSets, TLC

VARIABLES
    task,     \* which entry point this run exercises
    pc,       \* control position inside the entry point
    x,        \* the input string of PrefixDoubling / Bwt
    sa,       \* PrefixDoubling: sa       (radixSortBuckets: its sa argument)
    buf,      \* PrefixDoubling: *buf_p   (radixSortBuckets: its buf argument)
    rank,     \* PrefixDoubling: *rank_p  (radixSortBuckets: its rank argument)
    sigma,    \* PrefixDoubling: sigma
    k,        \* PrefixDoubling: k        (radixSortBuckets: its k argument)
    rounds,   \* number of completed iterations of the doubling loop
    sigmas,   \* history of the values taken by sigma (seed, then each round)
    y,        \* the string returned by Bwt / the argument of Rbwt
    asize,    \* the alphabet size handed to NewCTab / NewOTab
    ctab,     \* CTab.CumSum
    otab,     \* OTab: [nrow, ncol, table]
    i,        \* Rbwt: the cursor i
    j,        \* Rbwt: the loop variable j
    rx,       \* Rbwt: the slice x under reconstruction
    visited,  \* Rbwt: the cursor values read so far, in order
    panicIn,  \* the function whose index expression or make panicked, or ""
    saIn      \* radixSortBuckets called directly: sa as it was passed

vars == <<task, pc, x, sa, buf, rank, sigma, k, rounds, sigmas, y, asize,
          ctab, otab, i, j, rx, visited, panicIn, saIn>>

----------------------------------------------------------------------------
(* Bounds of the model and constants of the program.                       *)

\* longest input string drawn for PrefixDoubling / Bwt / Rbwt / the tables
MaxLen == 3

\* longest index slice drawn for a direct call of radixSortBuckets
MaxSlice == 2

\* calcRank0: alpha := [256]int32{} and its loop a < 256
AlphaSize == 256

\* radixSortBuckets: buckets := [256]int32{} and its loop i < 256
BucketCount == 256

\* Rbwt: sigma := 256, the alphabet size handed to NewCTab and NewOTab
RbwtSigma == 256

\* width of one radix digit and of the whole key (shift < 32; shift += 8)
DigitBits == 8

KeyBits == 32

\* byte values the inputs are drawn from (0 is the sentinel byte)
ByteVals == {0, 1, 2, 255}

----------------------------------------------------------------------------
(* Go slices as functions over 0..len-1.                                   *)

Len0(a) == Cardinality(DOMAIN a)

MakeInts(n) == [p \in 0 .. n - 1 |-> 0]

Slice(a, lo, hi) == [p \in 0 .. hi - lo - 1 |-> a[lo + p]]

\* a with the elements lo.. replaced by those of s (writes through a sub-slice)
Splice(a, lo, s) ==
    [p \in DOMAIN a |-> IF p >= lo /\ p < lo + Len0(s) THEN s[p - lo] ELSE a[p]]

Pow2(e) == 2 ^ e

----------------------------------------------------------------------------
(* A counted loop "for p := lo; p <= hi; p++ { st = Step(st, p) }".  The    *)
(* iterations run in increasing order of p, each on the state left by the  *)
(* one before.  The range is split in halves, and the state of the first   *)
(* half is evaluated (the test half = half) before the second half starts, *)
(* only to keep the evaluation stack shallow.                              *)

\* a local variable: v is evaluated once and named in Body
With(v, Body(_)) == Body(v)

RECURSIVE ForLoop(_, _, _, _)
ForLoop(Step(_, _), st, lo, hi) ==
    IF lo > hi THEN st
    ELSE IF lo = hi THEN Step(st, lo)
    ELSE With(ForLoop(Step, st, lo, (lo + hi) \div 2), LAMBDA half :
             IF half = half
             THEN ForLoop(Step, half, (lo + hi) \div 2 + 1, hi)
             ELSE half)

----------------------------------------------------------------------------
(* sa.go: the rank seed.                                                   *)

\* body of the second loop of calcRank0: number a tagged letter
calcRank0Assign(st, a) ==
    IF st.alpha[a] = 1
    THEN [alpha |-> [st.alpha EXCEPT ![a] = st.sigma], sigma |-> st.sigma + 1]
    ELSE st

calcRank0(xs) ==
    With(ForLoop(calcRank0Assign,
                 \* run through x and tag occurring letters;
                 \* sigma starts at 1, 0 is the sentinel
                 [alpha |-> [a \in 0 .. AlphaSize - 1 |->
                                IF \E p \in DOMAIN xs : xs[p] = a THEN 1 ELSE 0],
                  sigma |-> 1],
                 0, AlphaSize - 1),
         LAMBDA numbered :
             \* rank[len(x)] is already the sentinel (0) because make zeros
             [rank |-> [p \in 0 .. Len0(xs) |->
                           IF p < Len0(xs) THEN numbered.alpha[xs[p]] ELSE 0],
              sigma |-> numbered.sigma])

sa0(n) == [p \in 0 .. n - 1 |-> p]

getRank(rk, p) == IF p < Len0(rk) THEN rk[p] ELSE 0

----------------------------------------------------------------------------
(* sa.go: the radix sorter.                                                *)

\* the bucket index computed for element p of src in the pass of this shift
bucketOf(rk, src, kk, shift, p) == getRank(rk, src[p] + kk) \div Pow2(shift)

\* one pass over src into dst; ok is FALSE when a bucket index falls outside
\* the bucket table (the index expression buckets[b] panics)
radixPass(rk, src, dst, kk, shift) ==
    With([p \in DOMAIN src |-> bucketOf(rk, src, kk, shift, p)], LAMBDA keys :
        LET \* first loop: count the keys
            count(buckets, p) == [buckets EXCEPT ![keys[p]] = @ + 1]
            \* second loop: turn the counts into bucket start offsets
            accum(st, b) == [buckets |-> [st.buckets EXCEPT ![b] = st.acc],
                             acc |-> st.acc + st.buckets[b]]
            \* third loop: place src[p] in its bucket of dst
            place(st, p) == [buckets |-> [st.buckets EXCEPT ![keys[p]] = @ + 1],
                             dst |-> [st.dst EXCEPT ![st.buckets[keys[p]]] = src[p]]]
        IN  IF \E p \in DOMAIN keys : keys[p] < 0 \/ keys[p] >= BucketCount
            THEN [ok |-> FALSE, dst |-> dst]
            ELSE [ok |-> TRUE,
                  dst |-> ForLoop(place,
                              [buckets |->
                                  ForLoop(accum,
                                      [buckets |-> ForLoop(count, MakeInts(BucketCount),
                                                           0, Len0(src) - 1),
                                       acc |-> 0],
                                      0, BucketCount - 1).buckets,
                               dst |-> dst],
                              0, Len0(src) - 1).dst])

\* the passes from this shift on; a and b are what sa_p and buf_p point to
RECURSIVE radixPasses(_, _, _, _, _, _)
radixPasses(rk, a, b, kk, shift, flipped) ==
    IF shift >= KeyBits
    THEN [ok |-> TRUE,
          sa  |-> IF flipped THEN b ELSE a,
          buf |-> IF flipped THEN a ELSE b]
    ELSE With(radixPass(rk, a, b, kk, shift), LAMBDA pass :
             IF ~pass.ok
             THEN [ok |-> FALSE,
                   sa  |-> IF flipped THEN b ELSE a,
                   buf |-> IF flipped THEN a ELSE b]
             ELSE \* flip sa and buf for next iteration
                  radixPasses(rk, pass.dst, a, kk, shift + DigitBits, ~flipped))

\* radixSortBuckets(rank, sa, buf, k): the caller's sa and buf on return
radixSortBuckets(rk, s, b, kk) == radixPasses(rk, s, b, kk, 0, FALSE)

----------------------------------------------------------------------------
(* sa.go: the bucket-restricted sorter and the rank updater.               *)

\* inner loop of radixSort: b_end stops at the first position at or after it
\* that is the end of sa or holds another rank than sa[b_start]
bucketEnd(rk, s, bStart, bEnd) ==
    CHOOSE e \in bEnd .. Len0(s) :
        /\ e >= Len0(s) \/ rk[s[bStart]] # rk[s[e]]
        /\ \A d \in bEnd .. e - 1 : rk[s[bStart]] = rk[s[d]]

\* one iteration of the outer loop of radixSort (nothing once it has exited)
radixSortStep(rk, kk, st) ==
    IF ~st.ok \/ st.bStart >= Len0(st.sa) THEN st
    ELSE With(bucketEnd(rk, st.sa, st.bStart, st.bEnd), LAMBDA bEnd :
             IF bEnd - st.bStart > 1
             THEN \* sort the bucket if it is more than one element large
                  With(radixSortBuckets(rk, Slice(st.sa, st.bStart, bEnd),
                                        Slice(st.buf, st.bStart, bEnd), kk),
                       LAMBDA r :
                           [ok |-> r.ok,
                            sa |-> Splice(st.sa, st.bStart, r.sa),
                            buf |-> Splice(st.buf, st.bStart, r.buf),
                            bStart |-> bEnd, bEnd |-> bEnd])
             ELSE [st EXCEPT !.bStart = bEnd, !.bEnd = bEnd])

\* radixSort(k, rank, sa, buf); the outer loop runs at most len(sa) times
radixSort(kk, rk, s, b) ==
    LET body(st, n) == radixSortStep(rk, kk, st)
    IN  With(ForLoop(body, [ok |-> TRUE, sa |-> s, buf |-> b,
                            bStart |-> 0, bEnd |-> 0], 1, Len0(s)),
             LAMBDA end : [ok |-> end.ok, sa |-> end.sa, buf |-> end.buf])

\* the closure pair of updateRank.  The source packs the two 32-bit ranks in
\* one 64-bit integer, high half first; both are non-negative, so the packed
\* keys are equal exactly when the two halves are.
pair(s, rk, p, kk) == <<rk[s[p]], getRank(rk, s[p] + kk)>>

\* body of the loop of updateRank; a counts the letters, prev is prev_pair
updateRankStep(s, rk, kk, st, p) ==
    With(pair(s, rk, p, kk), LAMBDA cur :
        With(IF st.prev # cur THEN st.a + 1 ELSE st.a, LAMBDA a :
            [out |-> [st.out EXCEPT ![s[p]] = a], a |-> a, prev |-> cur]))

\* updateRank with the first letter numbered 1 instead of 0
updateRankFromOne(s, rk, out, kk) ==
    LET body(st, p) == updateRankStep(s, rk, kk, st, p)
    IN  With(ForLoop(body, [out |-> [out EXCEPT ![s[0]] = 1], a |-> 1,
                            prev |-> pair(s, rk, 0, kk)], 1, Len0(s) - 1),
             LAMBDA end : [out |-> end.out, sigma |-> end.a + 1])

updateRank(s, rk, out, kk) ==
    LET body(st, p) == updateRankStep(s, rk, kk, st, p)
    IN  With(ForLoop(body, [out |-> [out EXCEPT ![s[0]] = 0], a |-> 0,
                            prev |-> pair(s, rk, 0, kk)], 1, Len0(s) - 1),
             \* alphabet size is one past the largest letter
             LAMBDA end : [out |-> end.out, sigma |-> end.a + 1])

----------------------------------------------------------------------------
(* sa.go: the driver PrefixDoubling.                                       *)

\* up to the loop: sa0, make(buf), calcRank0 and the first radixSortBuckets
PrefixDoublingSeed(xs) ==
    With(calcRank0(xs), LAMBDA seed :
        With(radixSortBuckets(seed.rank, sa0(Len0(xs) + 1),
                              MakeInts(Len0(xs) + 1), 0),
             LAMBDA r :
                 [ok |-> r.ok, sa |-> r.sa, buf |-> r.buf, rank |-> seed.rank,
                  sigma |-> seed.sigma, k |-> 1]))

\* one iteration of the loop, on the values sa, *buf_p, *rank_p, sigma and k
PrefixDoublingRound(st) ==
    With(radixSort(st.k, st.rank, st.sa, st.buf), LAMBDA r :
        IF ~r.ok
        THEN [st EXCEPT !.ok = FALSE, !.sa = r.sa, !.buf = r.buf]
        ELSE With(updateRank(r.sa, st.rank, r.buf, st.k), LAMBDA u :
                 \* buf_p, rank_p = rank_p, buf_p; k *= 2
                 [ok |-> TRUE, sa |-> r.sa, buf |-> st.rank, rank |-> u.out,
                  sigma |-> u.sigma, k |-> st.k * 2]))

RECURSIVE PrefixDoublingLoop(_)
PrefixDoublingLoop(st) ==
    IF st.ok /\ st.sigma < Len0(st.rank)
    THEN PrefixDoublingLoop(PrefixDoublingRound(st))
    ELSE st

\* PrefixDoubling(x) as one call: ok and the sa returned
PrefixDoubling(xs) == PrefixDoublingLoop(PrefixDoublingSeed(xs))

----------------------------------------------------------------------------
(* The transform and its tables.                                           *)

\* Bwt(x), given the suffix array PrefixDoubling returned
Bwt(xs, s) ==
    LET n == Len0(xs)
    IN  IF \E p \in DOMAIN s : p > n \/ (s[p] # 0 /\ (s[p] - 1 < 0 \/ s[p] - 1 >= n))
        THEN [ok |-> FALSE, y |-> MakeInts(n + 1)]
        ELSE [ok |-> TRUE,
              y |-> [p \in 0 .. n |->
                        IF p < Len0(s) /\ s[p] # 0 THEN xs[s[p] - 1] ELSE 0]]

\* NewCTab with the running sum taken after the letter's own count is added
NewCTabInclusive(bwt, size) ==
    IF size < 0 \/ \E p \in DOMAIN bwt : bwt[p] >= size
    THEN [ok |-> FALSE, CumSum |-> <<>>]
    ELSE LET count(counts, p) == [counts EXCEPT ![bwt[p]] = @ + 1]
             counted == ForLoop(count, MakeInts(size), 0, Len0(bwt) - 1)
             accum(st, a) == [counts |-> [st.counts EXCEPT ![a] = st.n + st.counts[a]],
                              n |-> st.n + st.counts[a]]
         IN  [ok |-> TRUE,
              CumSum |-> ForLoop(accum, [counts |-> counted, n |-> 0],
                                 0, size - 1).counts]

\* NewCTab(bwt, asize): CumSum, or a panic on counts[b] or in make
NewCTab(bwt, size) ==
    IF size < 0 \/ \E p \in DOMAIN bwt : bwt[p] >= size
    THEN [ok |-> FALSE, CumSum |-> <<>>]
    ELSE LET \* first, count how often we see each character
             count(counts, p) == [counts EXCEPT ![bwt[p]] = @ + 1]
             counted == ForLoop(count, MakeInts(size), 0, Len0(bwt) - 1)
             \* then get the accumulative sum
             accum(st, a) == [counts |-> [st.counts EXCEPT ![a] = st.n],
                              n |-> st.n + st.counts[a]]
         IN  [ok |-> TRUE,
              CumSum |-> ForLoop(accum, [counts |-> counted, n |-> 0],
                                 0, size - 1).counts]

\* CTab.Rank
CTabRank(cumSum, a) == cumSum[a]

\* OTab.offset: -1 to a because the sentinel is not stored and -1 to i
\* because the first column is not stored
offset(ot, a, col) == ot.ncol * (a - 1) + (col - 1)

InTable(ot, o) == o >= 0 /\ o < Len0(ot.table)

\* OTab.get: the value, or a panic on the index expression
get(ot, a, col) ==
    IF InTable(ot, offset(ot, a, col))
    THEN [ok |-> TRUE, val |-> ot.table[offset(ot, a, col)]]
    ELSE [ok |-> FALSE, val |-> 0]

\* OTab.set: the table after the store; callers test InTable first
set(ot, a, col, val) == [ot EXCEPT !.table[offset(ot, a, col)] = val]

\* OTab.Rank without the early return for column 0
OTabRankUnguarded(ot, a, col) == get(ot, a, col)

\* OTab.Rank
OTabRank(ot, a, col) ==
    IF col = 0 THEN [ok |-> TRUE, val |-> 0] ELSE get(ot, a, col)

\* body of the inner loop of NewOTab, for row ba and column col
NewOTabCell(bwt, ba, st, col) ==
    IF ~st.ok THEN st
    ELSE With(get(st.otab, ba, col - 1), LAMBDA prevVal :
             IF ~prevVal.ok \/ ~InTable(st.otab, offset(st.otab, ba, col))
             THEN [st EXCEPT !.ok = FALSE]
             ELSE [st EXCEPT !.otab =
                      set(st.otab, ba, col,
                          IF bwt[col - 1] = ba THEN prevVal.val + 1
                          ELSE prevVal.val)])

\* NewOTab(bwt, asize): the table, or a panic in make, on bwt[0] or in set/get
NewOTab(bwt, size) ==
    With([nrow |-> size - 1, ncol |-> Len0(bwt),
          table |-> MakeInts((size - 1) * Len0(bwt))],
         LAMBDA empty :
             IF empty.nrow * empty.ncol < 0 \/ empty.ncol = 0
             THEN [ok |-> FALSE, otab |-> [empty EXCEPT !.table = <<>>]]
             ELSE IF ~InTable(empty, offset(empty, bwt[0], 1))
             THEN [ok |-> FALSE, otab |-> empty]
             ELSE LET row(st, a) ==
                          LET cell(st2, col) == NewOTabCell(bwt, a, st2, col)
                          IN  ForLoop(cell, st, 2, empty.ncol)
                  IN  \* the character at the beginning of bwt gets a count
                      \* of one at row one
                      ForLoop(row, [ok |-> TRUE, otab |-> set(empty, bwt[0], 1, 1)],
                              1, size - 1))

----------------------------------------------------------------------------
(* Inputs.                                                                 *)

Strings(vals, maxLen) == UNION {[0 .. n - 1 -> vals] : n \in 0 .. maxLen}

\* A sentinel-free string of 257 bytes over the letters 1..16 whose 258
\* suffixes have 257 distinct prefixes of length two: the blocks
\* a a a+1 a a+2 ... a 16 for a = 1..16 (every two-letter word once), with
\* one more 15 put in before the last 15 16 16.
LongBlockStart(a) == (a - 1) * (33 - a)

LongWord(q) ==
    LET a == CHOOSE c \in 1 .. 16 : LongBlockStart(c) <= q /\ q < LongBlockStart(c + 1)
        p == q - LongBlockStart(a)
    IN  IF p = 0 \/ p % 2 = 1 THEN a ELSE a + p \div 2

LongX == [q \in 0 .. 256 |-> IF q < 254 THEN LongWord(q) ELSE LongWord(q - 1)]

\* table sizes drawn for a direct call of NewCTab / NewOTab
TableSizes == {0, 1, 2, 3, 256}

\* rank values and offsets drawn for a direct call of radixSortBuckets
RankVals == {0, 1, 255, 256}

Offsets == {0, 1}

NoOTab == [nrow |-> 0, ncol |-> 0, table |-> <<>>]

\* TestBwt: Rbwt(Bwt(x))
InitTestBwt ==
    /\ task = "TestBwt" /\ pc = "PrefixDoubling"
    /\ x \in Strings(ByteVals, MaxLen) \cup {LongX}
    /\ sa = <<>> /\ buf = <<>> /\ rank = <<>> /\ k = 0
    /\ y = <<>> /\ asize = 0

\* Rbwt on a string of any origin
InitRbwt ==
    /\ task = "Rbwt" /\ pc = "Rbwt"
    /\ y \in Strings(ByteVals, MaxLen)
    /\ x = <<>> /\ sa = <<>> /\ buf = <<>> /\ rank = <<>> /\ k = 0
    /\ asize = 0

\* NewCTab and NewOTab on a string and an alphabet size of any origin
InitTables ==
    /\ task \in {"NewCTab", "NewOTab"} /\ pc = task
    /\ y \in Strings(ByteVals, MaxLen)
    /\ asize \in TableSizes
    /\ x = <<>> /\ sa = <<>> /\ buf = <<>> /\ rank = <<>> /\ k = 0

\* radixSortBuckets on a rank array, an index slice and an offset
InitRadix ==
    /\ task = "radixSortBuckets" /\ pc = task
    /\ rank \in Strings(RankVals, MaxSlice)
    /\ sa \in Strings(0 .. MaxSlice, MaxSlice)
    /\ buf = MakeInts(Len0(sa))
    /\ k \in Offsets
    /\ x = <<>> /\ y = <<>> /\ asize = 0

Init ==
    /\ InitTestBwt \/ InitRbwt \/ InitTables \/ InitRadix
    /\ sigma = 0 /\ rounds = 0 /\ sigmas = <<>>
    /\ ctab = <<>> /\ otab = NoOTab
    /\ i = 0 /\ j = 0 /\ rx = <<>> /\ visited = <<>>
    /\ panicIn = ""
    /\ saIn = sa

----------------------------------------------------------------------------
(* sa.go: PrefixDoubling, one action per step of the driver.               *)

\* up to the loop
PDSeed ==
    /\ pc = "PrefixDoubling"
    /\ \E st \in {PrefixDoublingSeed(x)} :
           /\ rank' = st.rank
           /\ sigma' = st.sigma
           /\ sigmas' = <<st.sigma>>
           /\ sa' = st.sa
           /\ buf' = st.buf
           /\ k' = st.k
           /\ pc' = IF st.ok THEN "loop" ELSE "panic"
           /\ panicIn' = IF st.ok THEN "" ELSE "radixSortBuckets"
    /\ UNCHANGED <<task, x, rounds, y, asize, ctab, otab, i, j, rx, visited, saIn>>

\* one iteration of the doubling loop
PDRound ==
    /\ pc = "loop"
    /\ sigma < Len0(rank)
    /\ \E st \in {PrefixDoublingRound([ok |-> TRUE, sa |-> sa, buf |-> buf,
                                      rank |-> rank, sigma |-> sigma, k |-> k])} :
           /\ sa' = st.sa
           /\ buf' = st.buf
           /\ rank' = st.rank
           /\ sigma' = st.sigma
           /\ k' = st.k
           /\ IF st.ok
              THEN /\ sigmas' = Append(sigmas, st.sigma)
                   /\ rounds' = rounds + 1
                   /\ UNCHANGED <<pc, panicIn>>
              ELSE /\ pc' = "panic" /\ panicIn' = "radixSortBuckets"
                   /\ UNCHANGED <<sigmas, rounds>>
    /\ UNCHANGED <<task, x, y, asize, ctab, otab, i, j, rx, visited, saIn>>

\* the loop condition fails: PrefixDoubling returns sa to Bwt
PDReturn ==
    /\ pc = "loop"
    /\ ~(sigma < Len0(rank))
    /\ pc' = "Bwt"
    /\ UNCHANGED <<task, x, sa, buf, rank, sigma, k, rounds, sigmas, y, asize,
                   ctab, otab, i, j, rx, visited, panicIn, saIn>>

\* the body of Bwt after PrefixDoubling has returned; TestBwt hands y to Rbwt
BwtBuild ==
    /\ pc = "Bwt"
    /\ \E r \in {Bwt(x, sa)} :
           /\ y' = r.y
           /\ pc' = IF r.ok THEN "Rbwt" ELSE "panic"
           /\ panicIn' = IF r.ok THEN "" ELSE "Bwt"
    /\ UNCHANGED <<task, x, sa, buf, rank, sigma, k, rounds, sigmas, asize,
                   ctab, otab, i, j, rx, visited, saIn>>

----------------------------------------------------------------------------
(* Rbwt, one action per iteration of its loop.                             *)

\* the tables, make(x) and i := 0, up to the loop
RbwtStart ==
    /\ pc = "Rbwt"
    /\ \E c \in {NewCTab(y, RbwtSigma)}, o \in {NewOTab(y, RbwtSigma)} :
           /\ asize' = RbwtSigma
           /\ ctab' = c.CumSum
           /\ otab' = IF c.ok THEN o.otab ELSE otab
           /\ IF c.ok /\ o.ok /\ Len0(y) - 1 >= 0
              THEN /\ rx' = MakeInts(Len0(y) - 1)
                   /\ j' = Len0(y) - 2
                   /\ pc' = "RbwtLoop"
                   /\ UNCHANGED panicIn
              ELSE /\ pc' = "panic"
                   /\ panicIn' = IF ~c.ok THEN "NewCTab"
                                 ELSE IF ~o.ok THEN "NewOTab" ELSE "Rbwt"
                   /\ UNCHANGED <<rx, j>>
           /\ i' = 0
    /\ UNCHANGED <<task, x, sa, buf, rank, sigma, k, rounds, sigmas, y, visited, saIn>>

\* one iteration: a := y[i]; x[j] = a; i = ctab.Rank(a) + otab.Rank(a, i)
RbwtStep ==
    /\ pc = "RbwtLoop"
    /\ j >= 0
    /\ IF i < 0 \/ i >= Len0(y)
       THEN /\ pc' = "panic" /\ panicIn' = "Rbwt"
            /\ UNCHANGED <<i, j, rx, visited>>
       ELSE \E a \in {y[i]}, o \in {OTabRank(otab, y[i], i)} :
                /\ rx' = [rx EXCEPT ![j] = a]
                /\ visited' = Append(visited, i)
                /\ IF o.ok
                   THEN /\ i' = CTabRank(ctab, a) + o.val
                        /\ j' = j - 1
                        /\ UNCHANGED <<pc, panicIn>>
                   ELSE /\ pc' = "panic" /\ panicIn' = "OTab.get"
                        /\ UNCHANGED <<i, j>>
    /\ UNCHANGED <<task, x, sa, buf, rank, sigma, k, rounds, sigmas, y, asize,
                   ctab, otab, saIn>>

\* the loop is over: return string(x)
RbwtReturn ==
    /\ pc = "RbwtLoop"
    /\ j < 0
    /\ pc' = "done"
    /\ UNCHANGED <<task, x, sa, buf, rank, sigma, k, rounds, sigmas, y, asize,
                   ctab, otab, i, j, rx, visited, panicIn, saIn>>

----------------------------------------------------------------------------
(* Direct calls of the table constructors and of the radix sorter.         *)

NewCTabCall ==
    /\ pc = "NewCTab"
    /\ \E c \in {NewCTab(y, asize)} :
           /\ ctab' = c.CumSum
           /\ pc' = IF c.ok THEN "done" ELSE "panic"
           /\ panicIn' = IF c.ok THEN "" ELSE "NewCTab"
    /\ UNCHANGED <<task, x, sa, buf, rank, sigma, k, rounds, sigmas, y, asize,
                   otab, i, j, rx, visited, saIn>>

NewOTabCall ==
    /\ pc = "NewOTab"
    /\ \E o \in {NewOTab(y, asize)} :
           /\ otab' = o.otab
           /\ pc' = IF o.ok THEN "done" ELSE "panic"
           /\ panicIn' = IF o.ok THEN "" ELSE "NewOTab"
    /\ UNCHANGED <<task, x, sa, buf, rank, sigma, k, rounds, sigmas, y, asize,
                   ctab, i, j, rx, visited, saIn>>

radixSortBucketsCall ==
    /\ pc = "radixSortBuckets"
    /\ \E r \in {radixSortBuckets(rank, sa, buf, k)} :
           /\ sa' = r.sa
           /\ buf' = r.buf
           /\ pc' = IF r.ok THEN "done" ELSE "panic"
           /\ panicIn' = IF r.ok THEN "" ELSE "radixSortBuckets"
    /\ UNCHANGED <<task, x, rank, sigma, k, rounds, sigmas, y, asize, ctab,
                   otab, i, j, rx, visited, saIn>>

----------------------------------------------------------------------------

Next ==
    \/ PDSeed \/ PDRound \/ PDReturn \/ BwtBuild
    \/ RbwtStart \/ RbwtStep \/ RbwtReturn
    \/ NewCTabCall \/ NewOTabCall \/ radixSortBucketsCall

Spec == Init /\ [][Next]_vars

----------------------------------------------------------------------------
(* What the tests of the package check, and the vocabulary of the claims.  *)

\* checkSAIndices: sa holds every index of x, and the one of the sentinel
checkSAIndices(xs, s) ==
    /\ Len0(s) = Len0(xs) + 1
    /\ {s[p] : p \in DOMAIN s} = 0 .. Len0(xs)

\* the string comparison x[a:] < x[b:] of checkSASorted
SuffixLess(xs, a, b) ==
    LET la == Len0(xs) - a
        lb == Len0(xs) - b
    IN  \E d \in 0 .. (IF la < lb THEN la ELSE lb) :
            /\ \A e \in 0 .. d - 1 : xs[a + e] = xs[b + e]
            /\ \/ d = la /\ d < lb
               \/ d < la /\ d < lb /\ xs[a + d] < xs[b + d]

\* checkSASorted: adjacent suffixes are in strictly increasing order
checkSASorted(xs, s) ==
    \A p \in 1 .. Len0(s) - 1 : SuffixLess(xs, s[p - 1], s[p])

checkSuffixArray(xs, s) == checkSAIndices(xs, s) /\ checkSASorted(xs, s)

NoSentinel(xs) == \A p \in DOMAIN xs : xs[p] # 0

\* number of occurrences of a in bwt[0:n]
Occ(bwt, a, n) == Cardinality({p \in 0 .. n - 1 : bwt[p] = a})

\* number of bytes of bwt strictly less than a
Below(bwt, a) == Cardinality({p \in DOMAIN bwt : bwt[p] < a})

\* the prefix of length len of x at p, padded with the sentinel, which
\* sorts before every byte (byte 0 included)
PaddedPrefix(xs, p, len) ==
    [e \in 0 .. len - 1 |-> IF p + e < Len0(xs) THEN xs[p + e] ELSE -1]

PrefixLess(u, v) ==
    \E d \in DOMAIN u : u[d] < v[d] /\ \A e \in 0 .. d - 1 : u[e] = v[e]

CeilLog2(m) == CHOOSE r \in 0 .. 31 : Pow2(r) >= m /\ (r = 0 \/ Pow2(r - 1) < m)

\* PrefixDoubling has returned its suffix array to Bwt
SaReturned ==
    /\ task = "TestBwt"
    /\ \/ pc \in {"Bwt", "Rbwt", "RbwtLoop", "done"}
       \/ pc = "panic" /\ panicIn # "radixSortBuckets"

\* Bwt has returned its string to TestBwt
BwtReturned ==
    /\ task = "TestBwt"
    /\ \/ pc \in {"Rbwt", "RbwtLoop", "done"}
       \/ pc = "panic" /\ panicIn \notin {"radixSortBuckets", "Bwt"}

\* the strings Bwt returns on the inputs of the model
BwtImage ==
    {Bwt(xs, PrefixDoubling(xs).sa).y : xs \in Strings(ByteVals, MaxLen)}

----------------------------------------------------------------------------
(* The claims.                                                             *)

\* C1: round trip.  For every string x without the sentinel byte, of any
\* length including 0, Rbwt(Bwt(x)) completes (no panic anywhere on the way)
\* and returns exactly x.
C1_RoundTrip ==
    (task = "TestBwt" /\ NoSentinel(x)) =>
        /\ pc # "panic"
        /\ pc = "done" => rx = x

\* C2: suffix array validity.  For every string x, PrefixDoubling(x) returns
\* (it does not panic), and what it returns has length len(x)+1, is a
\* permutation of 0..len(x) and lists the suffixes in strictly increasing
\* order, the empty suffix first.
C2_SuffixArrayValid ==
    task = "TestBwt" =>
        /\ ~(pc = "panic" /\ panicIn = "radixSortBuckets")
        /\ SaReturned => checkSuffixArray(x, sa)

\* C3: empty input.  For x = "" PrefixDoubling returns [0], Bwt returns the
\* one sentinel byte, and Rbwt of that one-byte string completes (its
\* tables are built) and returns "".
C3_EmptyInput ==
    /\ (task = "TestBwt" /\ x = <<>>) =>
          /\ pc # "panic"
          /\ SaReturned => sa = (0 :> 0)
          /\ BwtReturned => y = (0 :> 0)
          /\ pc = "done" => rx = <<>>
    /\ (task = "Rbwt" /\ y = (0 :> 0)) =>
          /\ pc # "panic"
          /\ pc = "done" => rx = <<>>

\* C4: malformed input.  For every string y that Bwt does not produce, Rbwt(y)
\* ends without a run-time failure.
C4_MalformedNoCrash ==
    (task = "Rbwt" /\ y \notin BwtImage) => pc # "panic"

\* C5: definition and length of the transform.  For every string x, Bwt(x)
\* returns a string of length len(x)+1 whose byte i is the sentinel when
\* sa[i] = 0 and x[sa[i]-1] otherwise, sa being PrefixDoubling(x).
C5_BwtDefinition ==
    task = "TestBwt" =>
        /\ ~(pc = "panic" /\ panicIn \in {"radixSortBuckets", "Bwt"})
        /\ BwtReturned =>
              /\ Len0(y) = Len0(x) + 1
              /\ \A p \in 0 .. Len0(x) :
                    y[p] = IF sa[p] = 0 THEN 0 ELSE x[sa[p] - 1]

\* C6: O-table.  For every non-empty bwt whose bytes are all below asize,
\* NewOTab(bwt, asize) completes and Rank(a, i) is the number of occurrences
\* of a in bwt[0:i], for every stored symbol a and every i in 0..len(bwt);
\* Rank(a, 0) = 0 for every symbol a.
C6_OTabRank ==
    (task = "NewOTab" /\ Len0(y) > 0 /\ \A p \in DOMAIN y : y[p] < asize) =>
        /\ pc # "panic"
        /\ pc = "done" =>
              /\ \A a \in 1 .. asize - 1 : \A col \in 0 .. Len0(y) :
                    OTabRank(otab, a, col) = [ok |-> TRUE, val |-> Occ(y, a, col)]
              /\ \A a \in 0 .. asize - 1 :
                    OTabRank(otab, a, 0) = [ok |-> TRUE, val |-> 0]

\* C7: C-table.  For every bwt whose bytes are all below asize, NewCTab(bwt,
\* asize) returns a table with Rank(a) = number of bytes of bwt strictly
\* less than a for every a < asize, and Rank(a) <= Rank(b) whenever a < b.
C7_CTabRank ==
    (task = "NewCTab" /\ \A p \in DOMAIN y : y[p] < asize) =>
        /\ pc # "panic"
        /\ pc = "done" =>
              /\ Len0(ctab) = asize
              /\ \A a \in 0 .. asize - 1 : CTabRank(ctab, a) = Below(y, a)
              /\ \A a \in 0 .. asize - 1 : \A b \in a + 1 .. asize - 1 :
                    CTabRank(ctab, a) <= CTabRank(ctab, b)

\* a C-table over three symbols has been built from a string holding each
C7_Witness ==
    /\ task = "NewCTab" /\ pc = "done" /\ asize = 3
    /\ Len0(y) = 3
    /\ CTabRank(ctab, 1) = 1 /\ CTabRank(ctab, 2) = 2

\* C8: radix sorter.  For every rank array of non-negative 32-bit values,
\* values of 256 and above included, every index slice and every offset k,
\* every bucket index stays inside the bucket table (no panic), and on return
\* sa holds the indices it started with, stably sorted by rank[sa[i]+k],
\* positions past the end of rank counting as rank 0.
C8_RadixSorter ==
    task = "radixSortBuckets" =>
        /\ pc # "panic"
        /\ pc = "done" =>
              LET key(p) == IF saIn[p] + k < Len0(rank)
                            THEN rank[saIn[p] + k] ELSE 0
                  pos(p) == Cardinality({q \in DOMAIN saIn : key(q) < key(p)})
                            + Cardinality({q \in DOMAIN saIn :
                                              q < p /\ key(q) = key(p)})
              IN  /\ Len0(sa) = Len0(saIn)
                  /\ \A p \in DOMAIN saIn : sa[pos(p)] = saIn[p]

\* C9: rank invariant of the doubling loop.  After the seed step and after
\* every round, rank[n] = 0, the ranks are exactly 0..sigma-1, sa is a
\* permutation of 0..n in non-decreasing order of rank, and the order of two
\* ranks is the order of the sentinel-padded prefixes of the current length
\* (k, which the loop has already doubled) at the two positions: a smaller
\* rank means a smaller prefix and equal ranks mean equal prefixes.
C9_RankInvariant ==
    pc = "loop" =>
        LET n == Len0(x)
        IN  /\ rank[n] = 0
            /\ {rank[p] : p \in 0 .. n} = 0 .. sigma - 1
            /\ checkSAIndices(x, sa)
            /\ \A p \in 1 .. n : rank[sa[p - 1]] <= rank[sa[p]]
            /\ \A a \in 0 .. n : \A b \in 0 .. n :
                  /\ rank[a] < rank[b] =>
                        PrefixLess(PaddedPrefix(x, a, k), PaddedPrefix(x, b, k))
                  /\ rank[a] = rank[b] =>
                        PaddedPrefix(x, a, k) = PaddedPrefix(x, b, k)

\* two rounds have run on a string of three equal letters
C9_Witness ==
    /\ pc = "loop" /\ rounds = 2 /\ Len0(x) = 3
    /\ x[0] = x[1] /\ x[1] = x[2]
    /\ sigma = 4

\* C10: progress and termination of the driver.  For every string x of
\* length n the values of sigma never decrease, the loop exits (it is not cut
\* short by a panic) after at most ceil(log2(n+1)) rounds, none when the seed
\* sigma is already n+1, and sigma is n+1 when it exits.
C10_DriverTerminates ==
    task = "TestBwt" =>
        LET n == Len0(x)
        IN  /\ \A p \in 1 .. Len(sigmas) - 1 : sigmas[p] <= sigmas[p + 1]
            /\ ~(pc = "panic" /\ panicIn = "radixSortBuckets")
            /\ rounds <= CeilLog2(n + 1)
            /\ (sigmas # <<>> /\ sigmas[1] = n + 1) => rounds = 0
            /\ SaReturned => sigma = n + 1

\* C11: the LF walk.  For y = Bwt(x) with x non-empty and without the
\* sentinel byte, Rbwt's loop runs len(x) iterations, and at every one of
\* them the cursor i lies in 0..len(y)-1, differs from every cursor visited
\* before, and reads a byte y[i] that is not the sentinel; so OTab.Rank is
\* never asked for the sentinel row at a column above 0, the table offset
\* it computes lies inside the table, and the walk does not panic.
C11_LFWalk ==
    (task = "TestBwt" /\ BwtReturned /\ Len0(x) > 0 /\ NoSentinel(x)) =>
        /\ ~(pc = "panic" /\ panicIn \in {"Rbwt", "OTab.get"})
        /\ pc = "RbwtLoop" =>
              /\ Len(visited) + j + 1 = Len0(x)
              /\ \A p \in 1 .. Len(visited) :
                    /\ visited[p] \in 0 .. Len0(y) - 1
                    /\ y[visited[p]] # 0
                    /\ \A q \in 1 .. Len(visited) : visited[p] = visited[q] => p = q
              /\ j >= 0 =>
                    /\ i \in 0 .. Len0(y) - 1
                    /\ \A p \in 1 .. Len(visited) : visited[p] # i
                    /\ y[i] # 0
                    /\ i > 0 => InTable(otab, offset(otab, y[i], i))

\* the walk has run all its iterations on a string of three letters, two
\* of them equal
C11_Witness ==
    /\ task = "TestBwt" /\ pc = "RbwtLoop" /\ j < 0
    /\ Len0(x) = 3 /\ NoSentinel(x) /\ x[0] = x[2] /\ x[0] # x[1]
    /\ Len(visited) = 3

====
